---- MODULE Spec2Model ----
(***************************************************************************)
(* Model of the webhook signature protocol of @locu/api-client            *)
(* (src/src/webhook.ts): parseWebhookSignature, generateWebhookSignature, *)
(* verifyWebhookSignature.                                                *)
(*                                                                         *)
(* A JavaScript string is a sequence of one-character strings, so that    *)
(* split, indexOf, slice, parseInt, number formatting and hex decoding    *)
(* are computed character by character as the runtime computes them.      *)
(***************************************************************************)
EXTENDS Integers, Sequences, FiniteSets, TLC

VARIABLES clock, issued, call, result, prev

vars == <<clock, issued, call, result, prev>>

(***************************************************************************)
(* JavaScript values                                                       *)
(***************************************************************************)

\* null, as in `let timestamp: number | null = null`
Null == [kind |-> "null"]

\* undefined, as in an optional property that was not supplied
Undefined == [kind |-> "undefined"]

\* the number NaN
NaN == [kind |-> "NaN"]

\* a number that is an integer
Num(n) == [kind |-> "number", value |-> n]

\* isNaN(x) for x a number
isNaN(x) == x = NaN

(***************************************************************************)
(* String primitives of the runtime                                        *)
(***************************************************************************)

Digits == <<"0", "1", "2", "3", "4", "5", "6", "7", "8", "9">>

IsDigit(c) == \E i \in 1..10 : Digits[i] = c

DigitValue(c) == (CHOOSE i \in 1..10 : Digits[i] = c) - 1

\* the white space parseInt skips (StrWhiteSpaceChar, the part the inputs use)
WhiteSpace == {" ", "\t", "\n"}

\* String.prototype.indexOf(c): 0-based index of the first c in s, or -1
indexOf(s, c) ==
    IF \E i \in 1..Len(s) : s[i] = c
    THEN (CHOOSE i \in 1..Len(s) : s[i] = c /\ \A j \in 1..(i - 1) : s[j] # c) - 1
    ELSE -1

\* String.prototype.slice(from, to) with 0 <= from, 0-based, to exclusive
slice(s, from, to) == SubSeq(s, from + 1, to)

\* String.prototype.slice(from) to the end of the string
sliceFrom(s, from) == SubSeq(s, from + 1, Len(s))

\* String.prototype.split(","): the parts between the commas; "" gives [""]
RECURSIVE split(_)
split(s) ==
    LET i == indexOf(s, ",")
    IN  IF i = -1
        THEN <<s>>
        ELSE <<slice(s, 0, i)>> \o split(sliceFrom(s, i + 1))

\* the value of a string of digits, most significant first
RECURSIVE DigitsValue(_)
DigitsValue(ds) ==
    IF ds = <<>> THEN 0
    ELSE 10 * DigitsValue(SubSeq(ds, 1, Len(ds) - 1)) + DigitValue(ds[Len(ds)])

\* s without its leading white space
RECURSIVE TrimStart(_)
TrimStart(s) ==
    IF s # <<>> /\ s[1] \in WhiteSpace THEN TrimStart(Tail(s)) ELSE s

\* the longest prefix of s made of digits
RECURSIVE DigitPrefix(_)
DigitPrefix(s) ==
    IF s # <<>> /\ IsDigit(s[1]) THEN <<s[1]>> \o DigitPrefix(Tail(s)) ELSE <<>>

\* parseInt that takes digits only and does not read a sign
parseInt_NoSign(value) ==
    LET ds == DigitPrefix(TrimStart(value))
    IN  IF ds = <<>> THEN NaN ELSE Num(DigitsValue(ds))

\* parseInt(value, 10): skip leading white space, read an optional sign, then
\* the longest run of digits; whatever follows is dropped; no digit gives NaN
parseInt(value) ==
    LET t    == TrimStart(value)
        neg  == t # <<>> /\ t[1] = "-"
        body == IF t # <<>> /\ t[1] \in {"+", "-"} THEN Tail(t) ELSE t
        ds   == DigitPrefix(body)
    IN  IF ds = <<>> THEN NaN
        ELSE Num(IF neg THEN 0 - DigitsValue(ds) ELSE DigitsValue(ds))

\* the decimal digits of n >= 0, most significant first
RECURSIVE NatToString(_)
NatToString(n) ==
    IF n < 10 THEN <<Digits[n + 1]>>
    ELSE NatToString(n \div 10) \o <<Digits[(n % 10) + 1]>>

\* `${n}` for an integer n below 10^21 in magnitude: Number::toString gives
\* positional decimal notation
NumberToString(n) == IF n < 0 THEN <<"-">> \o NatToString(0 - n) ELSE NatToString(n)

\* the number mantissa * 10^zeros, for the integers beyond the model's Int;
\* the mantissa does not end in 0 unless zeros = 0
TimesPowerOfTen(mantissa, zeros) == [mantissa |-> mantissa, zeros |-> zeros]

RECURSIVE Zeros(_)
Zeros(n) == IF n = 0 THEN <<>> ELSE <<"0">> \o Zeros(n - 1)

\* `${x}` for x = mantissa * 10^zeros: Number::toString gives positional
\* notation up to 21 digits and exponent notation beyond, with a '.' after
\* the first digit when more digits follow
NumberText(x) ==
    LET negative == x.mantissa < 0
        digits   == NatToString(IF negative THEN 0 - x.mantissa ELSE x.mantissa)
        n        == Len(digits) + x.zeros
    IN  IF n <= 21
        THEN NumberToString(x.mantissa) \o Zeros(x.zeros)
        ELSE (IF negative THEN <<"-">> ELSE <<>>)
             \o <<Head(digits)>>
             \o (IF Len(digits) > 1 THEN <<".">> \o Tail(digits) ELSE <<>>)
             \o <<"e", "+">> \o NatToString(n - 1)

\* `${timestamp}.${body}`, what is signed
SigningString(timestamp, body) == NumberText(timestamp) \o <<".">> \o body

(***************************************************************************)
(* parseWebhookSignature                                                   *)
(***************************************************************************)

\* ParsePart that keeps the first t and the first v1
ParsePart_FirstWins(acc, part) ==
    LET eqIndex == indexOf(part, "=")
    IN  IF eqIndex = -1 THEN acc
        ELSE LET key   == slice(part, 0, eqIndex)
                 value == sliceFrom(part, eqIndex + 1)
             IN  IF key = <<"t">>
                 THEN IF acc.timestamp = Null
                      THEN [acc EXCEPT !.timestamp = parseInt(value)]
                      ELSE acc
                 ELSE IF key = <<"v", "1">> /\ acc.signature = <<>>
                      THEN [acc EXCEPT !.signature = <<value>>]
                      ELSE acc

\* ParsePart that keeps the timestamp it has when a later t is not a number
ParsePart_KeepsValidTimestamp(acc, part) ==
    LET eqIndex == indexOf(part, "=")
    IN  IF eqIndex = -1 THEN acc
        ELSE LET key   == slice(part, 0, eqIndex)
                 value == sliceFrom(part, eqIndex + 1)
             IN  IF key = <<"t">>
                 THEN IF parseInt(value) = NaN /\ acc.timestamp # Null
                      THEN acc
                      ELSE [acc EXCEPT !.timestamp = parseInt(value)]
                 ELSE IF key = <<"v", "1">>
                      THEN [acc EXCEPT !.signature = <<value>>]
                      ELSE acc

\* ParsePart that takes every key starting with t for the timestamp
ParsePart_PrefixKey(acc, part) ==
    LET eqIndex == indexOf(part, "=")
    IN  IF eqIndex = -1 THEN acc
        ELSE LET key   == slice(part, 0, eqIndex)
                 value == sliceFrom(part, eqIndex + 1)
             IN  IF key # <<>> /\ key[1] = "t"
                 THEN [acc EXCEPT !.timestamp = parseInt(value)]
                 ELSE IF key = <<"v", "1">>
                      THEN [acc EXCEPT !.signature = <<value>>]
                      ELSE acc

\* ParsePart that takes a v1 only once a timestamp has been read
ParsePart_TimestampFirst(acc, part) ==
    LET eqIndex == indexOf(part, "=")
    IN  IF eqIndex = -1 THEN acc
        ELSE LET key   == slice(part, 0, eqIndex)
                 value == sliceFrom(part, eqIndex + 1)
             IN  IF key = <<"t">>
                 THEN [acc EXCEPT !.timestamp = parseInt(value)]
                 ELSE IF key = <<"v", "1">> /\ acc.timestamp # Null
                      THEN [acc EXCEPT !.signature = <<value>>]
                      ELSE acc

\* one pass of the loop body over `part`, acc = [timestamp, signature]
ParsePart(acc, part) ==
    LET eqIndex == indexOf(part, "=")
    IN  IF eqIndex = -1 THEN acc
        ELSE LET key   == slice(part, 0, eqIndex)
                 value == sliceFrom(part, eqIndex + 1)
             IN  IF key = <<"t">>
                 THEN [acc EXCEPT !.timestamp = parseInt(value)]
                 ELSE IF key = <<"v", "1">>
                      THEN [acc EXCEPT !.signature = <<value>>]
                      ELSE acc

\* the for loop over parts, in order
RECURSIVE ParseParts(_, _)
ParseParts(acc, parts) ==
    IF parts = <<>> THEN acc
    ELSE ParseParts(ParsePart(acc, Head(parts)), Tail(parts))

\* signature is <<>> for null and <<value>> for a string
parseWebhookSignature(signatureHeader) ==
    LET parts == split(signatureHeader)
        acc   == ParseParts([timestamp |-> Null, signature |-> <<>>], parts)
    IN  IF acc.timestamp = Null \/ acc.signature = <<>> \/ isNaN(acc.timestamp)
        THEN Null
        ELSE [timestamp |-> acc.timestamp.value, signature |-> acc.signature[1]]

(***************************************************************************)
(* Hex encoding and the keyed hash                                         *)
(***************************************************************************)

HexLower == <<"0", "1", "2", "3", "4", "5", "6", "7",
              "8", "9", "a", "b", "c", "d", "e", "f">>

HexUpper == <<"0", "1", "2", "3", "4", "5", "6", "7",
              "8", "9", "A", "B", "C", "D", "E", "F">>

\* the value of a hex digit of either case, -1 for any other character
unhex(c) ==
    IF \E i \in 1..16 : HexLower[i] = c
    THEN (CHOOSE i \in 1..16 : HexLower[i] = c) - 1
    ELSE IF \E i \in 1..16 : HexUpper[i] = c
         THEN (CHOOSE i \in 1..16 : HexUpper[i] = c) - 1
         ELSE -1

\* Buffer.from(s, "hex"): two characters per byte, either case; decoding stops
\* at the first pair that is not two hex digits, and a trailing single
\* character is dropped
RECURSIVE BufferFromHex(_)
BufferFromHex(s) ==
    IF Len(s) < 2 \/ unhex(s[1]) = -1 \/ unhex(s[2]) = -1
    THEN <<>>
    ELSE <<16 * unhex(s[1]) + unhex(s[2])>> \o BufferFromHex(SubSeq(s, 3, Len(s)))

\* digest("hex"): two lower-case hex digits per byte
RECURSIVE HexEncode(_)
HexEncode(bytes) ==
    IF bytes = <<>> THEN <<>>
    ELSE <<HexLower[(Head(bytes) \div 16) + 1], HexLower[(Head(bytes) % 16) + 1]>>
         \o HexEncode(Tail(bytes))

\* the characters that occur in secrets and signed payloads
CodeAlphabet == <<"0", "1", "2", "3", "4", "5", "6", "7", "8", "9",
                  "-", ".", ":", "a", "b", "k", "s", " ", "{", "}">>

\* the byte standing for character c in a digest
CharCode(c) == 160 + (CHOOSE i \in 1..Len(CodeAlphabet) : CodeAlphabet[i] = c)

\* the size of a SHA-256 digest in bytes
DigestLen == 32

\* HMAC-SHA256 taken as a collision-free function of (key, message) onto
\* DigestLen bytes: the length-prefixed codes of key and message, padded.
\* It is injective as long as key and message together fit the digest.
HmacSha256(key, message) ==
    LET used == <<Len(key)>> \o [i \in 1..Len(key) |-> CharCode(key[i])]
                \o <<Len(message)>> \o [i \in 1..Len(message) |-> CharCode(message[i])]
    IN  used \o [i \in 1..(DigestLen - Len(used)) |-> 0]

\* createHmac("sha256", secret).update(signaturePayload).digest("hex")
HmacSha256Hex(secret, signaturePayload) == HexEncode(HmacSha256(secret, signaturePayload))

\* crypto.timingSafeEqual(a, b): throws a RangeError when the byte lengths
\* differ, otherwise tells whether the buffers are equal
timingSafeEqual(a, b) ==
    IF Len(a) # Len(b)
    THEN [threw |-> TRUE, value |-> FALSE]
    ELSE [threw |-> FALSE, value |-> (a = b)]

(***************************************************************************)
(* generateWebhookSignature and verifyWebhookSignature                     *)
(***************************************************************************)

\* `t=${timestamp},v1=${signature}`
formatHeader(timestamp, signature) ==
    <<"t", "=">> \o NumberToString(timestamp) \o <<",", "v", "1", "=">> \o signature

\* generateWebhookSignature that puts the signature before the timestamp
generateWebhookSignature_SignatureFirst(secret, timestamp, body) ==
    LET signaturePayload == NumberToString(timestamp) \o <<".">> \o body
        signature        == HmacSha256Hex(secret, signaturePayload)
    IN  <<"v", "1", "=">> \o signature \o <<",", "t", "=">> \o NumberToString(timestamp)

\* generateWebhookSignature that signs the timestamp alone
generateWebhookSignature_TimestampOnly(secret, timestamp, body) ==
    LET signaturePayload == NumberToString(timestamp) \o <<".">>
        signature        == HmacSha256Hex(secret, signaturePayload)
    IN  formatHeader(timestamp, signature)

generateWebhookSignature(secret, timestamp, body) ==
    LET signaturePayload == SigningString(TimesPowerOfTen(timestamp, 0), body)
        signature        == HmacSha256Hex(secret, signaturePayload)
    IN  formatHeader(timestamp, signature)

Valid == [valid |-> TRUE]

Invalid(error) == [valid |-> FALSE, error |-> error]

\* what a call gives when an exception leaves it
Threw == [threw |-> TRUE]

\* the clock-skew allowance into the future, in seconds
FutureSkew == 60

\* Math.floor(Date.now() / 1000), dateNow in milliseconds
nowSeconds(dateNow) == dateNow \div 1000

\* whether the age check runs: options?.maxAge !== undefined
maxAgeSupplied(options) == options.maxAge # Undefined

\* checkAge with maxAge defaulting to 300 when it is not supplied
checkAge_Default300(timestamp, options, dateNow) ==
    LET maxAge == IF options.maxAge = Undefined THEN 300 ELSE options.maxAge.value
        age    == (dateNow \div 1000) - timestamp
    IN  IF age > maxAge
        THEN "Signature timestamp too old"
        ELSE IF age < 0 - 60
             THEN "Signature timestamp in the future"
             ELSE "ok"

\* checkAge that rejects an age equal to maxAge
checkAge_OldAtLimit(timestamp, options, dateNow) ==
    IF options.maxAge # Undefined
    THEN LET age == (dateNow \div 1000) - timestamp
         IN  IF age >= options.maxAge.value
             THEN "Signature timestamp too old"
             ELSE IF age < 0 - 60
                  THEN "Signature timestamp in the future"
                  ELSE "ok"
    ELSE "ok"

\* checkAge without the clock-skew allowance
checkAge_NoSkew(timestamp, options, dateNow) ==
    IF options.maxAge # Undefined
    THEN LET age == (dateNow \div 1000) - timestamp
         IN  IF age > options.maxAge.value
             THEN "Signature timestamp too old"
             ELSE IF age < 0
                  THEN "Signature timestamp in the future"
                  ELSE "ok"
    ELSE "ok"

\* checkAge with the two error messages exchanged
checkAge_MessagesSwapped(timestamp, options, dateNow) ==
    IF options.maxAge # Undefined
    THEN LET age == (dateNow \div 1000) - timestamp
         IN  IF age > options.maxAge.value
             THEN "Signature timestamp in the future"
             ELSE IF age < 0 - 60
                  THEN "Signature timestamp too old"
                  ELSE "ok"
    ELSE "ok"

\* the age check: "ok" or the error it returns
checkAge(timestamp, options, dateNow) ==
    IF maxAgeSupplied(options)
    THEN LET now == nowSeconds(dateNow)
             age == now - timestamp
         IN  IF age > options.maxAge.value
             THEN "Signature timestamp too old"
             ELSE IF age < 0 - FutureSkew
                  THEN "Signature timestamp in the future"
                  ELSE "ok"
    ELSE "ok"

\* s without its blanks: the text of a JSON value without strings as an
\* encoder writes it again
RECURSIVE StripBlanks(_)
StripBlanks(s) ==
    IF s = <<>> THEN <<>>
    ELSE IF Head(s) \in {" ", "\t", "\n", "\r"} THEN StripBlanks(Tail(s))
    ELSE <<Head(s)>> \o StripBlanks(Tail(s))

\* expectedSignature over the body written again instead of the raw body
expectedSignature_Reserialized(secret, timestamp, body) ==
    LET signaturePayload == NumberToString(timestamp) \o <<".">> \o StripBlanks(body)
    IN  HmacSha256Hex(secret, signaturePayload)

\* expectedSignature with ':' joining timestamp and body, unlike the signer
expectedSignature_Colon(secret, timestamp, body) ==
    LET signaturePayload == NumberToString(timestamp) \o <<":">> \o body
    IN  HmacSha256Hex(secret, signaturePayload)

\* the signature verifyWebhookSignature expects for the parsed timestamp
expectedSignature(secret, timestamp, body) ==
    LET signaturePayload == SigningString(TimesPowerOfTen(timestamp, 0), body)
    IN  HmacSha256Hex(secret, signaturePayload)

\* compareSignatures that forgets to look at isValid
compareSignatures_LengthOnly(signature, expected) ==
    IF Len(BufferFromHex(signature)) # Len(BufferFromHex(expected))
    THEN [valid |-> FALSE, error |-> "Invalid signature"]
    ELSE [valid |-> TRUE]

\* compareSignatures without the length check before timingSafeEqual
compareSignatures_NoLengthCheck(signature, expected) ==
    LET isValid == timingSafeEqual(BufferFromHex(signature), BufferFromHex(expected))
    IN  IF isValid.threw THEN [threw |-> TRUE]
        ELSE IF ~isValid.value
             THEN [valid |-> FALSE, error |-> "Invalid signature"]
             ELSE [valid |-> TRUE]

\* the comparison of the claimed signature with the expected one
compareSignatures(signature, expected) ==
    LET signatureBuffer == BufferFromHex(signature)
        expectedBuffer  == BufferFromHex(expected)
    IN  IF Len(signatureBuffer) # Len(expectedBuffer)
        THEN Invalid("Invalid signature")
        ELSE LET isValid == timingSafeEqual(signatureBuffer, expectedBuffer)
             IN  IF isValid.threw THEN Threw
                 ELSE IF ~isValid.value
                      THEN Invalid("Invalid signature")
                      ELSE Valid

\* verifyWebhookSignature that compares the signatures before it checks the age
verifyWebhookSignature_SignatureFirst(secret, signatureHeader, body, options, dateNow) ==
    LET parsed == parseWebhookSignature(signatureHeader)
    IN  IF parsed = Null
        THEN Invalid("Invalid signature format")
        ELSE LET timestamp == parsed.timestamp
                 signature == parsed.signature
                 aged      == checkAge(timestamp, options, dateNow)
                 compared  == compareSignatures(signature,
                                                expectedSignature(secret, timestamp, body))
             IN  IF compared # Valid THEN compared
                 ELSE IF aged # "ok" THEN Invalid(aged)
                 ELSE Valid

\* verifyWebhookSignature that first requires the header to begin with 't='
verifyWebhookSignature_TimestampLeads(secret, signatureHeader, body, options, dateNow) ==
    LET parsed == parseWebhookSignature(signatureHeader)
    IN  IF parsed = Null \/ SubSeq(signatureHeader, 1, 2) # <<"t", "=">>
        THEN Invalid("Invalid signature format")
        ELSE LET timestamp == parsed.timestamp
                 signature == parsed.signature
                 aged      == checkAge(timestamp, options, dateNow)
             IN  IF aged # "ok"
                 THEN Invalid(aged)
                 ELSE compareSignatures(signature,
                                        expectedSignature(secret, timestamp, body))

\* verifyWebhookSignature that compares with the header generated last
\* instead of computing the expected signature
verifyWebhookSignature_LastGenerated(secret, signatureHeader, body, options, dateNow) ==
    LET parsed == parseWebhookSignature(signatureHeader)
    IN  IF parsed = Null
        THEN Invalid("Invalid signature format")
        ELSE LET timestamp == parsed.timestamp
                 signature == parsed.signature
                 aged      == checkAge(timestamp, options, dateNow)
             IN  IF aged # "ok"
                 THEN Invalid(aged)
                 ELSE IF issued = Null
                      THEN compareSignatures(signature,
                                             expectedSignature(secret, timestamp, body))
                      ELSE IF signatureHeader = issued.header
                           THEN Valid
                           ELSE Invalid("Invalid signature")

\* options is [maxAge |-> Undefined] or [maxAge |-> Num(n)];
\* dateNow is what Date.now() gives during the call
verifyWebhookSignature(secret, signatureHeader, body, options, dateNow) ==
    LET parsed == parseWebhookSignature(signatureHeader)
    IN  IF parsed = Null
        THEN Invalid("Invalid signature format")
        ELSE LET timestamp == parsed.timestamp
                 signature == parsed.signature
                 aged      == checkAge(timestamp, options, dateNow)
             IN  IF aged # "ok"
                 THEN Invalid(aged)
                 ELSE compareSignatures(signature,
                                        expectedSignature(secret, timestamp, body))

\* a call that verifyWebhookSignature makes to its surroundings
Effect(fn) == [fn |-> fn]

\* ageEffects with one reading of the clock for each of the two checks
ageEffects_ReadsTwice(options) ==
    IF options.maxAge # Undefined
    THEN <<Effect("Date.now"), Effect("Date.now")>>
    ELSE <<>>

\* the clock is read only inside `if (options?.maxAge !== undefined)`
ageEffects(options) ==
    IF maxAgeSupplied(options) THEN <<Effect("Date.now")>> ELSE <<>>

\* compareEffects without the length test before timingSafeEqual
compareEffects_NoLengthCheck(signature, expected) ==
    <<Effect("Buffer.from"), Effect("Buffer.from"),
      [fn |-> "timingSafeEqual", a |-> Len(BufferFromHex(signature)),
       b |-> Len(BufferFromHex(expected))]>>

\* both signatures are decoded; timingSafeEqual is called after the length test
compareEffects(signature, expected) ==
    LET signatureBuffer == BufferFromHex(signature)
        expectedBuffer  == BufferFromHex(expected)
    IN  <<Effect("Buffer.from"), Effect("Buffer.from")>>
        \o (IF Len(signatureBuffer) # Len(expectedBuffer)
            THEN <<>>
            ELSE <<[fn |-> "timingSafeEqual", a |-> Len(signatureBuffer),
                    b |-> Len(expectedBuffer)]>>)

\* the calls verifyWebhookSignature makes, in the order it makes them
verifyEffects(secret, signatureHeader, body, options, dateNow) ==
    LET parsed == parseWebhookSignature(signatureHeader)
    IN  <<Effect("parseWebhookSignature")>>
        \o (IF parsed = Null THEN <<>>
            ELSE ageEffects(options)
                 \o (IF checkAge(parsed.timestamp, options, dateNow) # "ok"
                     THEN <<>>
                     ELSE <<Effect("createHmac")>>
                          \o compareEffects(parsed.signature,
                                            expectedSignature(secret, parsed.timestamp,
                                                              body))))

(***************************************************************************)
(* parseWebhookPayload: JSON.parse                                         *)
(* JSON values are records: null, [kind "boolean"], [kind "number"],       *)
(* [kind "string"], [kind "array"] and [kind "object"] whose fields is a   *)
(* function from property names to values.  Numbers are integers and       *)
(* strings have the two-character escapes; no text of the model holds a    *)
(* fraction, an exponent or a \u escape.                                   *)
(***************************************************************************)

Bool(b) == [kind |-> "boolean", truth |-> b]

Str(chars) == [kind |-> "string", chars |-> chars]

Arr(items) == [kind |-> "array", items |-> items]

Obj(fields) == [kind |-> "object", fields |-> fields]

NoFields == [k \in {} |-> Null]

JsonWhiteSpace == {" ", "\t", "\n", "\r"}

\* what a character after a backslash stands for
SimpleEscapes == ("\"" :> "\"") @@ ("\\" :> "\\") @@ ("/" :> "/")
                 @@ ("n" :> "\n") @@ ("t" :> "\t") @@ ("r" :> "\r")

\* a parse that failed, and one that read value and stops before position next
NoParse == [ok |-> FALSE]

Parsed(value, next) == [ok |-> TRUE, value |-> value, next |-> next]

\* the first position from i on that holds no white space
RECURSIVE SkipWs(_, _)
SkipWs(s, i) ==
    IF i <= Len(s) /\ s[i] \in JsonWhiteSpace THEN SkipWs(s, i + 1) ELSE i

\* the first position from i on that holds no digit
RECURSIVE DigitRunEnd(_, _)
DigitRunEnd(s, i) ==
    IF i <= Len(s) /\ IsDigit(s[i]) THEN DigitRunEnd(s, i + 1) ELSE i

\* the characters of a string whose opening quote is before position i
RECURSIVE ParseStringAt(_, _, _)
ParseStringAt(s, i, acc) ==
    IF i > Len(s) THEN NoParse
    ELSE IF s[i] = "\"" THEN Parsed(acc, i + 1)
    ELSE IF s[i] = "\\"
         THEN IF i + 1 <= Len(s) /\ s[i + 1] \in DOMAIN SimpleEscapes
              THEN ParseStringAt(s, i + 2, Append(acc, SimpleEscapes[s[i + 1]]))
              ELSE NoParse
    ELSE IF s[i] \in {"\n", "\t", "\r"} THEN NoParse
    ELSE ParseStringAt(s, i + 1, Append(acc, s[i]))

\* an integer at position i: '-'? then 0 or a digit run without leading zero
ParseNumberAt(s, i) ==
    LET first == IF s[i] = "-" THEN i + 1 ELSE i
        end   == IF first <= Len(s) /\ s[first] = "0"
                 THEN first + 1
                 ELSE DigitRunEnd(s, first)
        abs   == DigitsValue(SubSeq(s, first, end - 1))
    IN  IF end = first THEN NoParse
        ELSE Parsed(Num(IF first = i THEN abs ELSE 0 - abs), end)

\* the literal word at position i
ParseLiteralAt(s, i, word, value) ==
    IF i + Len(word) - 1 <= Len(s) /\ SubSeq(s, i, i + Len(word) - 1) = word
    THEN Parsed(value, i + Len(word))
    ELSE NoParse

RECURSIVE ParseValueAt(_, _)
RECURSIVE ParseElements(_, _, _)
RECURSIVE ParseMembers(_, _, _)

\* the elements of an array from position i on, items read so far
ParseElements(s, i, items) ==
    LET element == ParseValueAt(s, i)
        after   == SkipWs(s, element.next)
    IN  IF ~element.ok \/ after > Len(s) THEN NoParse
        ELSE IF s[after] = ","
             THEN ParseElements(s, SkipWs(s, after + 1), Append(items, element.value))
        ELSE IF s[after] = "]"
             THEN Parsed(Arr(Append(items, element.value)), after + 1)
        ELSE NoParse

\* the members of an object from position i on; a repeated name overwrites
ParseMembers(s, i, fields) ==
    IF i > Len(s) \/ s[i] # "\"" THEN NoParse
    ELSE LET name  == ParseStringAt(s, i + 1, <<>>)
             colon == SkipWs(s, name.next)
             value == ParseValueAt(s, SkipWs(s, colon + 1))
             after == SkipWs(s, value.next)
             read  == (name.value :> value.value) @@ fields
         IN  IF ~name.ok \/ colon > Len(s) \/ s[colon] # ":" THEN NoParse
             ELSE IF ~value.ok \/ after > Len(s) THEN NoParse
             ELSE IF s[after] = ","
                  THEN ParseMembers(s, SkipWs(s, after + 1), read)
             ELSE IF s[after] = "}" THEN Parsed(Obj(read), after + 1)
             ELSE NoParse

\* the JSON value that starts at position i
ParseValueAt(s, i) ==
    IF i > Len(s) THEN NoParse
    ELSE IF s[i] = "{"
         THEN LET j == SkipWs(s, i + 1)
              IN  IF j <= Len(s) /\ s[j] = "}"
                  THEN Parsed(Obj(NoFields), j + 1)
                  ELSE ParseMembers(s, j, NoFields)
    ELSE IF s[i] = "["
         THEN LET j == SkipWs(s, i + 1)
              IN  IF j <= Len(s) /\ s[j] = "]"
                  THEN Parsed(Arr(<<>>), j + 1)
                  ELSE ParseElements(s, j, <<>>)
    ELSE IF s[i] = "\""
         THEN LET chars == ParseStringAt(s, i + 1, <<>>)
              IN  IF chars.ok THEN Parsed(Str(chars.value), chars.next) ELSE NoParse
    ELSE IF s[i] = "-" \/ IsDigit(s[i]) THEN ParseNumberAt(s, i)
    ELSE IF s[i] = "t" THEN ParseLiteralAt(s, i, <<"t", "r", "u", "e">>, Bool(TRUE))
    ELSE IF s[i] = "f" THEN ParseLiteralAt(s, i, <<"f", "a", "l", "s", "e">>, Bool(FALSE))
    ELSE IF s[i] = "n" THEN ParseLiteralAt(s, i, <<"n", "u", "l", "l">>, Null)
    ELSE NoParse

\* JSON.parse(text): one value with white space around it, or a SyntaxError
JSONparse(text) ==
    LET read == ParseValueAt(text, SkipWs(text, 1))
    IN  IF read.ok /\ SkipWs(text, read.next) = Len(text) + 1
        THEN read.value
        ELSE Threw

\* parseWebhookPayload that gives null for a body it cannot read
parseWebhookPayload_NullOnError(body) ==
    IF JSONparse(body) = Threw THEN Null ELSE JSONparse(body)

\* return JSON.parse(body) as WebhookPayload<T>: the cast checks nothing
parseWebhookPayload(body) == JSONparse(body)

(***************************************************************************)
(* The client: request                                                     *)
(***************************************************************************)

MessageKey == <<"m", "e", "s", "s", "a", "g", "e">>

CodeKey == <<"c", "o", "d", "e">>

\* the status of a response without content
NoContent == 204

\* new LocuApiError(message, status, code)
LocuApiError(message, status, code) ==
    [name |-> "LocuApiError", message |-> message, status |-> status, code |-> code]

\* how the promise of a call settles, and whether response.json() was called
Rejected(error, bodyRead) == [settled |-> "rejected", error |-> error, bodyRead |-> bodyRead]

Resolved(value, bodyRead) == [settled |-> "resolved", value |-> value, bodyRead |-> bodyRead]

\* response.ok: the status is in the range 200-299
ok(response) == response.status >= 200 /\ response.status < 300

\* whether v counts as true in `v || ...`
ToBoolean(v) ==
    IF v.kind \in {"undefined", "null", "NaN"} THEN FALSE
    ELSE IF v.kind = "string" THEN v.chars # <<>>
    ELSE IF v.kind = "number" THEN v.value # 0
    ELSE IF v.kind = "boolean" THEN v.truth
    ELSE TRUE

\* v?.key: undefined for null and for a value that has no such property
OptionalMember(v, key) ==
    IF v.kind = "object" /\ key \in DOMAIN v.fields THEN v.fields[key] ELSE Undefined

\* `Request failed with status ${status}`
RequestFailedText(status) ==
    <<"R", "e", "q", "u", "e", "s", "t", " ", "f", "a", "i", "l", "e", "d", " ", "w", "i", "t", "h", " ", "s", "t", "a", "t", "u", "s", " ">> \o NumberToString(status)

\* request in which a failure to read the error body leaves the call
request_ErrorBodyRethrown(method, path, body, fetched) ==
    IF "rejects" \in DOMAIN fetched THEN Rejected(fetched.rejects, FALSE)
    ELSE IF ~ok(fetched)
         THEN IF fetched.json = Threw
              THEN Rejected([name |-> "SyntaxError"], TRUE)
              ELSE LET message == OptionalMember(fetched.json, MessageKey)
                   IN  Rejected(LocuApiError(IF ToBoolean(message)
                                             THEN message.chars
                                             ELSE RequestFailedText(fetched.status),
                                             fetched.status,
                                             OptionalMember(fetched.json, CodeKey)),
                                TRUE)
    ELSE IF fetched.status = NoContent THEN Resolved(Undefined, FALSE)
    ELSE IF fetched.json = Threw THEN Rejected([name |-> "SyntaxError"], TRUE)
    ELSE Resolved(fetched.json, TRUE)

\* request(method, path, body) when fetchFn settles as fetched: a rejection
\* [rejects |-> error], or a response [status, json] whose json is the value
\* response.json() gives, Threw when the body is no JSON
request(method, path, body, fetched) ==
    IF "rejects" \in DOMAIN fetched THEN Rejected(fetched.rejects, FALSE)
    ELSE IF ~ok(fetched)
         THEN LET errorData == IF fetched.json = Threw THEN Null ELSE fetched.json
                  message   == OptionalMember(errorData, MessageKey)
              IN  Rejected(LocuApiError(IF ToBoolean(message)
                                        THEN message.chars
                                        ELSE RequestFailedText(fetched.status),
                                        fetched.status,
                                        OptionalMember(errorData, CodeKey)),
                           TRUE)
    ELSE IF fetched.status = NoContent THEN Resolved(Undefined, FALSE)
    ELSE IF fetched.json = Threw THEN Rejected([name |-> "SyntaxError"], TRUE)
    ELSE Resolved(fetched.json, TRUE)

(***************************************************************************)
(* The client generator (scripts/generate-client.ts)                       *)
(* A path is the sequence of its segments: "/tasks/{id}" is                *)
(* <<"tasks", "{id}">>; a type name that is not configured is "".          *)
(***************************************************************************)

Custom(name, method, path) == [name |-> name, method |-> method, path |-> path]

RESOURCES ==
    << [name |-> "me", basePath |-> <<"me">>, singleton |-> TRUE,
        createRequest |-> "", updateRequest |-> "",
        customMethods |-> <<>>, nested |-> <<>>],
       [name |-> "timer", basePath |-> <<"timer">>, singleton |-> TRUE,
        createRequest |-> "", updateRequest |-> "",
        customMethods |->
          << Custom("start", "post", <<"timer", "start">>),
             Custom("pause", "post", <<"timer", "pause">>),
             Custom("continue", "post", <<"timer", "continue">>),
             Custom("stop", "post", <<"timer", "stop">>),
             Custom("cancel", "delete", <<"timer">>) >>,
        nested |-> <<>>],
       [name |-> "tasks", basePath |-> <<"tasks">>, singleton |-> FALSE,
        createRequest |-> "CreateTaskRequest", updateRequest |-> "UpdateTaskRequest",
        customMethods |->
          << Custom("sections", "get", <<"tasks", "sections">>),
             Custom("subtasks", "get", <<"tasks", "{id}", "subtasks">>),
             Custom("createSubtask", "post", <<"tasks">>) >>,
        nested |-> <<>>],
       [name |-> "projects", basePath |-> <<"projects">>, singleton |-> FALSE,
        createRequest |-> "CreateProjectRequest",
        updateRequest |-> "UpdateProjectRequest",
        customMethods |-> <<>>, nested |-> <<>>],
       [name |-> "notes", basePath |-> <<"notes">>, singleton |-> FALSE,
        createRequest |-> "CreateNoteRequest", updateRequest |-> "UpdateNoteRequest",
        customMethods |-> <<>>, nested |-> <<>>],
       [name |-> "sessions", basePath |-> <<"sessions">>, singleton |-> FALSE,
        createRequest |-> "CreateSessionRequest",
        updateRequest |-> "UpdateSessionRequest",
        customMethods |-> <<>>,
        nested |->
          << [name |-> "activities", basePath |-> <<"activities">>,
              createRequest |-> "CreateActivityRequest",
              updateRequest |-> "UpdateActivityRequest",
              parentIdParam |-> "sessionId", idParam |-> "activityId"] >>],
       [name |-> "webhooks", basePath |-> <<"webhooks">>, singleton |-> FALSE,
        createRequest |-> "CreateWebhookRequest",
        updateRequest |-> "UpdateWebhookRequest",
        customMethods |->
          << Custom("rotateSecret", "post", <<"webhooks", "{id}", "rotate-secret">>),
             Custom("deliveries", "get", <<"webhooks", "{id}", "deliveries">>) >>,
        nested |-> <<>>] >>

\* the methods the validation looks for in a path block
httpMethods == <<"get", "post", "put", "patch", "delete">>

\* method.toUpperCase()
toUpperCase ==
    [get |-> "GET", post |-> "POST", put |-> "PUT", patch |-> "PATCH",
     delete |-> "DELETE", head |-> "HEAD", options |-> "OPTIONS", trace |-> "TRACE"]

Elements(seq) == {seq[i] : i \in 1..Len(seq)}

Endpoint(path, method) == [path |-> path, method |-> method]

\* `{${name}}` in a configured path and `${${name}}` in generated code
PathParam(name) ==
    [id |-> "{id}", activityId |-> "{activityId}", sessionId |-> "{sessionId}"][name]

CodeParam(name) ==
    [id |-> "${id}", activityId |-> "${activityId}", sessionId |-> "${sessionId}"][name]

\* the paths and methods the configuration covers
ConfiguredOf(resource) ==
    LET customs == {Endpoint(m.path, m.method) : m \in Elements(resource.customMethods)}
        nestedOf(nested) ==
            LET nestedBase == resource.basePath \o <<"{id}">> \o nested.basePath
                nestedItem == nestedBase \o <<PathParam(nested.idParam)>>
            IN  {Endpoint(nestedBase, "get")}
                \cup (IF nested.createRequest # ""
                      THEN {Endpoint(nestedBase, "post")} ELSE {})
                \cup (IF nested.idParam # ""
                      THEN (IF nested.updateRequest # ""
                            THEN {Endpoint(nestedItem, "patch")} ELSE {})
                           \cup {Endpoint(nestedItem, "delete")}
                      ELSE {})
    IN  IF resource.singleton
        THEN {Endpoint(resource.basePath, "get")} \cup customs
        ELSE { Endpoint(resource.basePath, "get"),
               Endpoint(resource.basePath, "post"),
               Endpoint(resource.basePath \o <<"{id}">>, "get"),
               Endpoint(resource.basePath \o <<"{id}">>, "patch"),
               Endpoint(resource.basePath \o <<"{id}">>, "delete") }
             \cup customs
             \cup UNION {nestedOf(nested) : nested \in Elements(resource.nested)}

getConfiguredPathMethods == UNION {ConfiguredOf(resource) : resource \in Elements(RESOURCES)}

\* path.replace("{id}", "${id}"): the first {id} only
ReplaceId(path) ==
    [i \in 1..Len(path) |->
        IF path[i] = "{id}" /\ \A j \in 1..(i - 1) : path[j] # "{id}"
        THEN "${id}" ELSE path[i]]

\* a generated method of the client, as the call of request it makes
ClientCall(method, path) == [method |-> method, path |-> path]

generateCrudMethods(resource) ==
    { ClientCall("GET", resource.basePath),
      ClientCall("GET", resource.basePath \o <<"${id}">>),
      ClientCall("DELETE", resource.basePath \o <<"${id}">>) }
    \cup (IF resource.createRequest # ""
          THEN {ClientCall("POST", resource.basePath)} ELSE {})
    \cup (IF resource.updateRequest # ""
          THEN {ClientCall("PATCH", resource.basePath \o <<"${id}">>)} ELSE {})

generateCustomMethods(resource) ==
    { IF m.name = "createSubtask" THEN ClientCall("POST", resource.basePath)
      ELSE IF "{id}" \in Elements(m.path)
           THEN ClientCall(toUpperCase[m.method], ReplaceId(m.path))
           ELSE ClientCall(toUpperCase[m.method], m.path) :
      m \in Elements(resource.customMethods) }

generateNestedResource(nested, parentBasePath) ==
    LET fullBasePath == parentBasePath \o <<CodeParam(nested.parentIdParam)>>
                        \o nested.basePath
        itemPath     == fullBasePath \o <<CodeParam(nested.idParam)>>
    IN  {ClientCall("GET", fullBasePath)}
        \cup (IF nested.createRequest # ""
              THEN {ClientCall("POST", fullBasePath)} ELSE {})
        \cup (IF nested.updateRequest # "" /\ nested.idParam # ""
              THEN {ClientCall("PATCH", itemPath)} ELSE {})
        \cup (IF nested.idParam # ""
              THEN {ClientCall("DELETE", itemPath)} ELSE {})

generateSingletonMethods(resource) ==
    {ClientCall("GET", resource.basePath)}
    \cup {ClientCall(toUpperCase[m.method], m.path) : m \in Elements(resource.customMethods)}

generateResource(resource) ==
    IF resource.singleton THEN generateSingletonMethods(resource)
    ELSE generateCrudMethods(resource)
         \cup generateCustomMethods(resource)
         \cup UNION { generateNestedResource(nested, resource.basePath) :
                      nested \in Elements(resource.nested) }

\* the methods of the client that generateClient writes
generateClient == UNION {generateResource(resource) : resource \in Elements(RESOURCES)}

\* the operations the validation finds in the API description: in each path
\* block, those of httpMethods
extractPathMethodsFromGeneratedApi(api) ==
    {endpoint \in api : endpoint.method \in Elements(httpMethods)}

\* the endpoints validatePaths reports as missing; it returns true when
\* there is none
validatePaths(api) ==
    extractPathMethodsFromGeneratedApi(api) \ getConfiguredPathMethods

\* main: what a run of the generator on the API description api leaves
main(api) ==
    IF validatePaths(api) # {}
    THEN [exit |-> 1, written |-> FALSE, missing |-> validatePaths(api), client |-> {}]
    ELSE [exit |-> 0, written |-> TRUE, missing |-> {}, client |-> generateClient]

(***************************************************************************)
(* Inputs                                                                  *)
(***************************************************************************)

\* the longest request body
MaxBodyLen == 1

\* the most comma-separated segments a hand-made header has
MaxSegs == 3

Secrets == {<<"k">>, <<"s">>}

Bodies == UNION {[1..n -> {"a"}] : n \in 0..MaxBodyLen}

\* claimed signing times, in seconds
Timestamps == {-5, 1000, 1061}

NoOptions == [maxAge |-> Undefined]

WithMaxAge(n) == [maxAge |-> Num(n)]

OptionsValues == {NoOptions, WithMaxAge(300), WithMaxAge(0), WithMaxAge(-100)}

\* readings of Date.now(), in milliseconds, around the window of timestamp 1000
Instants == {939999, 940000, 1000000, 1000999, 1001000, 1300999, 1301000, 2000000}

\* s with its letters a..f in upper case
UpperHex(s) ==
    [i \in 1..Len(s) |-> IF unhex(s[i]) = -1 THEN s[i] ELSE HexUpper[unhex(s[i]) + 1]]

\* s with its first character replaced by another hex digit
FlipFirst(s) == [s EXCEPT ![1] = IF s[1] = "0" THEN "1" ELSE "0"]

V1 == <<"v", "1", "=">>

V1Key == <<"v", "1">>

\* headers a receiver may be handed once `d` was signed: the issued header
\* and headers made from its timestamp and signature
DerivedHeaders(d) ==
    LET sig == sliceFrom(d.header, indexOf(d.header, ",") + 4)
        t   == <<"t", "=">> \o NumberToString(d.timestamp)
    IN  { d.header,
          formatHeader(d.timestamp, UpperHex(sig)),
          formatHeader(d.timestamp, FlipFirst(sig)),
          formatHeader(d.timestamp, SubSeq(sig, 1, Len(sig) - 2)),
          formatHeader(d.timestamp, sig \o <<"0">>),
          formatHeader(d.timestamp, sig \o <<"z", "z">>),
          formatHeader(d.timestamp + 1, sig),
          V1 \o sig \o <<",">> \o t,
          t }

\* headers made without any issued signature
ForgedHeaders ==
    { <<"i", "n", "v", "a", "l", "i", "d">>,
      <<"t", "=", "1", "0", "0", "0", ",", "v", "1", "=", "z", "z">>,
      <<"t", "=", "x", ",", "v", "1", "=", "0", "0">> }

WireHeaders == (IF issued = Null THEN {} ELSE DerivedHeaders(issued)) \cup ForgedHeaders

\* the segments hand-made headers are built from
SegmentPool ==
    { <<"t", "=", "7">>,
      <<"t", "=", "-", "1", "2">>,
      <<"t", "=", "x">>,
      <<"t", "=", "7", "x">>,
      <<"v", "1", "=", "0", "f">>,
      <<"v", "1", "=">>,
      <<"t", "1", "=", "9">>,
      <<>> }

FormatTimestamps == {0, 7, -12}

FormatSignatures == {<<"0", "f">>, <<"A", "1", "b">>, <<>>}

\* segs joined by commas: the header whose segments are segs (segs not empty)
RECURSIVE Join(_)
Join(segs) ==
    IF Len(segs) = 1 THEN segs[1]
    ELSE segs[1] \o <<",">> \o Join(Tail(segs))

InsertAt(segs, i, seg) == SubSeq(segs, 1, i - 1) \o <<seg>> \o SubSeq(segs, i, Len(segs))

RemoveAt(segs, i) == SubSeq(segs, 1, i - 1) \o SubSeq(segs, i + 1, Len(segs))

\* the property names of the payload envelope
EventKey == <<"e", "v", "e", "n", "t">>

TimestampKey == <<"t", "i", "m", "e", "s", "t", "a", "m", "p">>

DataKey == <<"d", "a", "t", "a">>

\* "chars" as JSON text, for chars that need no escape
Quoted(chars) == <<"\"">> \o chars \o <<"\"">>

\* event names and sending times of deliveries
PayloadEvents == {<<"a", ".", "b">>, <<"x">>}

PayloadTimestamps == {<<"1", "Z">>}

\* the data of deliveries: JSON text and the value it denotes
DataSamples ==
    { [text  |-> <<"{", "\"", "i", "d", "\"", ":", "\"", "1", "\"", "}">>,
       value |-> Obj(<<"i", "d">> :> Str(<<"1">>))],
      [text  |-> <<"n", "u", "l", "l">>,
       value |-> Null],
      [text  |-> <<"[", "1", ",", "{", "\"", "a", "\"", ":", "[", "]", "}", "]">>,
       value |-> Arr(<<Num(1), Obj(<<"a">> :> Arr(<<>>))>>)],
      [text  |-> <<"-", "1", "2">>,
       value |-> Num(-12)],
      [text  |-> <<"\"", "s", "\"">>,
       value |-> Str(<<"s">>)],
      [text  |-> <<"{", "\"", "d", "\"", ":", "{", "\"", "e", "\"", ":", "t", "r", "u", "e", "}", "}">>,
       value |-> Obj(<<"d">> :> Obj(<<"e">> :> Bool(TRUE)))] }

\* how the sender lays the envelope out: compact, or data first with white
\* space and one more member
Layouts == {"compact", "spaced"}

EnvelopeText(layout, event, timestamp, data) ==
    IF layout = "compact"
    THEN <<"{">> \o Quoted(EventKey) \o <<":">> \o Quoted(event) \o <<",">>
         \o Quoted(TimestampKey) \o <<":">> \o Quoted(timestamp) \o <<",">>
         \o Quoted(DataKey) \o <<":">> \o data \o <<"}">>
    ELSE <<"{", " ">> \o Quoted(DataKey) \o <<":", " ">> \o data \o <<",", "\n">>
         \o Quoted(<<"i", "d">>) \o <<":", "7", " ", ",">>
         \o Quoted(TimestampKey) \o <<":">> \o Quoted(timestamp) \o <<",">>
         \o Quoted(EventKey) \o <<" ", ":">> \o Quoted(event) \o <<"}", " ">>

EnvelopeTexts ==
    { EnvelopeText(layout, event, timestamp, data.text) :
        layout \in Layouts, event \in PayloadEvents,
        timestamp \in PayloadTimestamps, data \in DataSamples }

\* a delivery cut short: every text that is the start of an envelope text
\* and ends before its closing brace
CutTexts ==
    UNION { {SubSeq(text, 1, n) : n \in 0..(Len(text) - 2)} : text \in EnvelopeTexts }

\* bodies that are no JSON text
NotJsonTexts ==
    { <<"n", "o", "t", " ", "v", "a", "l", "i", "d", " ", "j", "s", "o", "n">>,
      <<"{", "'", "a", "'", ":", "1", "}">>,
      <<"{", "\"", "a", "\"", ":", "1", ",", "}">>,
      <<"[", "1", ",", "]">>,
      <<"0", "1">>,
      <<"n", "u", "l">>,
      <<"{", "\"", "a", "\"", " ", "1", "}">>,
      <<"\"", "x">>,
      <<"-", " ", "1">>,
      <<"1", " ", "2">>,
      <<"{", "\"", "a", "\"", ":", "1", "}", "}">> }

\* bodies that are JSON text but no envelope
OtherJsonTexts ==
    { <<"1", "2", "3">>,
      <<"n", "u", "l", "l">>,
      <<"{", "}">>,
      <<"[", "]">>,
      <<"\"", "x", "\"">>,
      <<"t", "r", "u", "e">>,
      <<"{", "\"", "e", "v", "e", "n", "t", "\"", ":", "\"", "x", "\"", "}">>,
      <<"{", "\"", "e", "v", "e", "n", "t", "\"", ":", "1", ",", "\"", "t", "i", "m", "e", "s", "t", "a", "m", "p", "\"", ":", "\"", "1", "Z", "\"", ",", "\"", "d", "a", "t", "a", "\"", ":", "n", "u", "l", "l", "}">>,
      <<"{", "\"", "e", "v", "e", "n", "t", "\"", ":", "\"", "x", "\"", ",", "\"", "t", "i", "m", "e", "s", "t", "a", "m", "p", "\"", ":", "n", "u", "l", "l", ",", "\"", "d", "a", "t", "a", "\"", ":", "{", "}", "}">> }

PayloadBodies == EnvelopeTexts \cup CutTexts \cup NotJsonTexts \cup OtherJsonTexts

\* request bodies that are JSON text; some denote the same value
JsonBodies == {<<"{", "}">>, <<"{", " ", "}">>, <<"1">>, <<" ", "1">>}

\* some methods of the client, each with the arguments it hands to request
ClientMethods ==
    { [name |-> "tasks.get", method |-> "GET", path |-> "/tasks/1", body |-> Undefined],
      [name |-> "tasks.create", method |-> "POST", path |-> "/tasks",
       body |-> Obj(<<"n">> :> Str(<<"x">>))],
      [name |-> "tasks.delete", method |-> "DELETE", path |-> "/tasks/1", body |-> Undefined],
      [name |-> "timer.pause", method |-> "POST", path |-> "/timer/pause", body |-> Undefined] }

Statuses == {200, 201, NoContent, 400, 404, 500}

\* what response.json() gives: Threw for a body that is no JSON
ResponseBodies ==
    { Threw,
      Obj((<<"e", "r", "r", "o", "r">> :> Str(<<"n", "f">>))
          @@ (MessageKey :> Str(<<"g", "o", "n", "e">>))
          @@ (CodeKey :> Str(<<"N", "F">>))),
      Obj(MessageKey :> Str(<<"g", "o", "n", "e">>)),
      Obj(CodeKey :> Str(<<"N", "F">>)),
      Obj((MessageKey :> Str(<<>>)) @@ (CodeKey :> Str(<<"N", "F">>))),
      Obj(NoFields),
      Null,
      Str(<<"g", "o", "n", "e">>),
      Arr(<<>>) }

\* how fetchFn settles: the network fails, or a response arrives
FetchOutcomes ==
    {[rejects |-> [name |-> "TypeError"]]}
    \cup {[status |-> status, json |-> json] : status \in Statuses, json \in ResponseBodies}

\* the most operations an API description of the model has
MaxApiEndpoints == 2

\* operations of the API that the configuration does not name
UnconfiguredEndpoints ==
    { Endpoint(<<"users">>, "get"),
      Endpoint(<<"users", "{id}">>, "get"),
      Endpoint(<<"tasks", "{id}">>, "put"),
      Endpoint(<<"me">>, "delete"),
      Endpoint(<<"tasks", "{taskId}">>, "get"),
      Endpoint(<<"sessions", "{id}", "activities", "{activityId}">>, "get"),
      Endpoint(<<"tasks">>, "head"),
      Endpoint(<<"timer">>, "options") }

\* the sets of at most n of the operations
RECURSIVE ApisUpTo(_, _)
ApisUpTo(operations, n) ==
    IF n = 0 THEN {{}}
    ELSE LET smaller == ApisUpTo(operations, n - 1)
         IN  smaller \cup {api \cup {e} : api \in smaller, e \in operations}

\* the API descriptions: up to MaxApiEndpoints operations
ApiDescriptions ==
    ApisUpTo(getConfiguredPathMethods \cup UnconfiguredEndpoints, MaxApiEndpoints)

SwapAt(segs, i, j) ==
    [k \in 1..Len(segs) |-> IF k = i THEN segs[j] ELSE IF k = j THEN segs[i] ELSE segs[k]]

(***************************************************************************)
(* The calls                                                               *)
(***************************************************************************)

Init ==
    /\ clock = 939999
    /\ issued = Null
    /\ call = Null
    /\ result = Null
    /\ prev = Null

\* time passes between calls
Tick ==
    /\ call = Null
    /\ \E c \in Instants : c > clock /\ clock' = c
    /\ UNCHANGED <<issued, call, result, prev>>

\* the sender signs a delivery; prev is the delivery signed before
Generate ==
    /\ call = Null
    /\ \E secret \in Secrets, timestamp \in Timestamps, body \in Bodies :
          LET header == generateWebhookSignature(secret, timestamp, body)
          IN  /\ call' = [op |-> "generate", secret |-> secret,
                          timestamp |-> timestamp, body |-> body]
              /\ result' = header
              /\ issued' = [secret |-> secret, timestamp |-> timestamp,
                            body |-> body, header |-> header]
    /\ prev' = issued
    /\ UNCHANGED clock

\* the receiver verifies what it was handed
Verify ==
    /\ call = Null
    /\ \E secret \in Secrets, header \in WireHeaders, body \in Bodies,
          options \in OptionsValues :
          /\ call' = [op |-> "verify", secret |-> secret, header |-> header,
                      body |-> body, options |-> options, dateNow |-> clock,
                      effects |-> verifyEffects(secret, header, body, options, clock)]
          /\ result' = verifyWebhookSignature(secret, header, body, options, clock)
    /\ UNCHANGED <<clock, issued, prev>>

\* parseWebhookSignature is called and returns
ParseCall(header) ==
    /\ call' = [op |-> "parse", header |-> header]
    /\ result' = parseWebhookSignature(header)

\* a caller parses a header in the canonical format
ParseFormatted ==
    /\ call = Null
    /\ \E timestamp \in FormatTimestamps, signature \in FormatSignatures :
          ParseCall(formatHeader(timestamp, signature))
    /\ prev' = Null
    /\ UNCHANGED <<clock, issued>>

\* the receiver parses the header it was handed
Parse ==
    /\ call = Null
    /\ \E header \in WireHeaders : ParseCall(header)
    /\ prev' = Null
    /\ UNCHANGED <<clock, issued>>

\* the call's values are discarded
Return ==
    /\ call # Null
    /\ call' = Null
    /\ result' = Null
    /\ prev' = Null
    /\ UNCHANGED <<clock, issued>>

Next == Tick \/ Generate \/ Verify \/ Parse \/ ParseFormatted \/ Return

Spec == Init /\ [][Next]_vars

(***************************************************************************)
(* The header parser on its own: each call parses a formatted header, or   *)
(* the header of the call before with one segment added or removed, or    *)
(* with two segments exchanged                                             *)
(***************************************************************************)

ParseWithSegmentAdded ==
    /\ call # Null
    /\ LET segs == split(call.header)
       IN  /\ Len(segs) < MaxSegs
           /\ \E i \in 1..(Len(segs) + 1), seg \in SegmentPool :
                 ParseCall(Join(InsertAt(segs, i, seg)))
    /\ prev' = [header |-> call.header, result |-> result]
    /\ UNCHANGED <<clock, issued>>

ParseWithSegmentRemoved ==
    /\ call # Null
    /\ LET segs == split(call.header)
       IN  /\ Len(segs) > 1
           /\ \E i \in 1..Len(segs) : ParseCall(Join(RemoveAt(segs, i)))
    /\ prev' = [header |-> call.header, result |-> result]
    /\ UNCHANGED <<clock, issued>>

ParseWithSegmentsSwapped ==
    /\ call # Null
    /\ LET segs == split(call.header)
       IN  \E i \in 1..Len(segs), j \in 1..Len(segs) :
              /\ i < j
              /\ ParseCall(Join(SwapAt(segs, i, j)))
    /\ prev' = [header |-> call.header, result |-> result]
    /\ UNCHANGED <<clock, issued>>

ParseNext ==
    \/ ParseFormatted
    \/ ParseWithSegmentAdded
    \/ ParseWithSegmentRemoved
    \/ ParseWithSegmentsSwapped
    \/ Return

ParseSpec == Init /\ [][ParseNext]_vars

(***************************************************************************)
(* The payload decoder on its own: each call decodes one request body      *)
(***************************************************************************)

ParsePayload ==
    /\ call = Null
    /\ \E body \in PayloadBodies :
          /\ call' = [op |-> "payload", body |-> body]
          /\ result' = parseWebhookPayload(body)
    /\ prev' = Null
    /\ UNCHANGED <<clock, issued>>

PayloadNext == ParsePayload \/ Return

PayloadSpec == Init /\ [][PayloadNext]_vars

(***************************************************************************)
(* The client on its own: each call is one method of the client            *)
(***************************************************************************)

Request ==
    /\ call = Null
    /\ \E m \in ClientMethods, fetched \in FetchOutcomes :
          /\ call' = [op |-> "request", client |-> m.name, method |-> m.method,
                      path |-> m.path, body |-> m.body, fetched |-> fetched]
          /\ result' = request(m.method, m.path, m.body, fetched)
    /\ prev' = Null
    /\ UNCHANGED <<clock, issued>>

ClientNext == Request \/ Return

ClientSpec == Init /\ [][ClientNext]_vars

(***************************************************************************)
(* The generator on its own: each call is one run on an API description    *)
(***************************************************************************)

RunGenerator ==
    /\ call = Null
    /\ \E api \in ApiDescriptions :
          /\ call' = [op |-> "main", api |-> api]
          /\ result' = main(api)
    /\ prev' = Null
    /\ UNCHANGED <<clock, issued>>

GeneratorNext == RunGenerator \/ Return

GeneratorSpec == Init /\ [][GeneratorNext]_vars

(***************************************************************************)
(* Deliveries with JSON bodies: the sender signs a body, the receiver      *)
(* verifies the header with the body it received                           *)
(***************************************************************************)

SignDelivery ==
    /\ call = Null
    /\ \E secret \in Secrets, timestamp \in Timestamps, body \in JsonBodies :
          LET header == generateWebhookSignature(secret, timestamp, body)
          IN  /\ call' = [op |-> "generate", secret |-> secret,
                          timestamp |-> timestamp, body |-> body]
              /\ result' = header
              /\ issued' = [secret |-> secret, timestamp |-> timestamp,
                            body |-> body, header |-> header]
    /\ prev' = issued
    /\ UNCHANGED clock

VerifyDelivery ==
    /\ call = Null
    /\ issued # Null
    /\ \E secret \in Secrets, body \in JsonBodies :
          /\ call' = [op |-> "verify", secret |-> secret, header |-> issued.header,
                      body |-> body, options |-> NoOptions, dateNow |-> clock,
                      effects |-> verifyEffects(secret, issued.header, body,
                                                NoOptions, clock)]
          /\ result' = verifyWebhookSignature(secret, issued.header, body,
                                              NoOptions, clock)
    /\ UNCHANGED <<clock, issued, prev>>

DeliveryNext == SignDelivery \/ VerifyDelivery \/ Return

DeliverySpec == Init /\ [][DeliveryNext]_vars

(***************************************************************************)
(* Verification while time passes: the call reads the clock where the code *)
(* reads it, and the clock may have moved on when the call returns         *)
(***************************************************************************)

VerifyAsClockRuns ==
    /\ call = Null
    /\ issued # Null
    /\ \E header \in WireHeaders, options \in OptionsValues :
          /\ call' = [op |-> "verify", secret |-> issued.secret, header |-> header,
                      body |-> issued.body, options |-> options, dateNow |-> clock,
                      effects |-> verifyEffects(issued.secret, header, issued.body,
                                                options, clock)]
          /\ result' = verifyWebhookSignature(issued.secret, header, issued.body,
                                              options, clock)
    /\ \E c \in Instants : c >= clock /\ clock' = c
    /\ UNCHANGED <<issued, prev>>

ClockNext == Tick \/ Generate \/ VerifyAsClockRuns \/ Return

ClockSpec == Init /\ [][ClockNext]_vars

(***************************************************************************)
(* Two callers at once: each begins a call of one of the four functions    *)
(* and gets its result in a later step, so that calls overlap in every     *)
(* order. The first caller's call is in call and result, the second        *)
(* caller's in prev                                                        *)
(***************************************************************************)

\* the call has begun and has not returned
Pending == [pending |-> TRUE]

CallHeaders ==
    { generateWebhookSignature(secret, 1000, <<>>) : secret \in Secrets }
      \cup {<<"i", "n", "v", "a", "l", "i", "d">>}

CallReadings == {1000000, 2000000}

CallPayloads == {<<"{", "}">>, <<"x">>}

\* the calls a caller makes, each with its arguments and, for
\* verifyWebhookSignature, the reading of the clock it gets
Calls ==
    [op : {"parse"}, header : CallHeaders]
    \cup [op : {"generate"}, secret : Secrets, timestamp : {1000}, body : {<<>>}]
    \cup [op : {"verify"}, secret : Secrets, header : CallHeaders,
          body : {<<>>}, options : {NoOptions, WithMaxAge(300)},
          dateNow : CallReadings]
    \cup [op : {"payload"}, body : CallPayloads]

\* what the call c returns
Run(c) ==
    CASE c.op = "parse"    -> parseWebhookSignature(c.header)
      [] c.op = "generate" -> generateWebhookSignature(c.secret, c.timestamp, c.body)
      [] c.op = "verify"   -> verifyWebhookSignature(c.secret, c.header, c.body,
                                                     c.options, c.dateNow)
      [] c.op = "payload"  -> parseWebhookPayload(c.body)

\* the sender's record of the delivery signed last, after the call c returned
IssuedAfter(c) ==
    IF c.op = "generate"
    THEN [secret |-> c.secret, timestamp |-> c.timestamp, body |-> c.body,
          header |-> Run(c)]
    ELSE issued

BeginCall ==
    /\ call = Null
    /\ \E c \in Calls : call' = c
    /\ result' = Pending
    /\ UNCHANGED <<clock, issued, prev>>

EndCall ==
    /\ call # Null
    /\ result = Pending
    /\ result' = Run(call)
    /\ issued' = IssuedAfter(call)
    /\ UNCHANGED <<clock, call, prev>>

DiscardCall ==
    /\ call # Null
    /\ result # Pending
    /\ call' = Null
    /\ result' = Null
    /\ UNCHANGED <<clock, issued, prev>>

BeginOther ==
    /\ prev = Null
    /\ \E c \in Calls : prev' = [call |-> c, result |-> Pending]
    /\ UNCHANGED <<clock, issued, call, result>>

EndOther ==
    /\ prev # Null
    /\ prev.result = Pending
    /\ prev' = [prev EXCEPT !.result = Run(prev.call)]
    /\ issued' = IssuedAfter(prev.call)
    /\ UNCHANGED <<clock, call, result>>

DiscardOther ==
    /\ prev # Null
    /\ prev.result # Pending
    /\ prev' = Null
    /\ UNCHANGED <<clock, issued, call, result>>

CallsNext ==
    BeginCall \/ EndCall \/ DiscardCall \/ BeginOther \/ EndOther \/ DiscardOther

CallsSpec == Init /\ [][CallsNext]_vars

(***************************************************************************)
(* Replay: a correctly signed request is captured and presented to the     *)
(* receiver again and again as time passes; prev is an earlier             *)
(* verification with its outcome                                           *)
(***************************************************************************)

Capture ==
    /\ call = Null
    /\ issued = Null
    /\ \E secret \in Secrets, timestamp \in Timestamps, body \in Bodies :
          issued' = [secret |-> secret, timestamp |-> timestamp, body |-> body,
                     header |-> generateWebhookSignature(secret, timestamp, body)]
    /\ UNCHANGED <<clock, call, result, prev>>

VerifyReplay ==
    /\ call = Null
    /\ issued # Null
    /\ \E options \in OptionsValues :
          /\ call' = [op |-> "verify", secret |-> issued.secret,
                      header |-> issued.header, body |-> issued.body,
                      options |-> options, dateNow |-> clock,
                      effects |-> verifyEffects(issued.secret, issued.header,
                                                issued.body, options, clock)]
          /\ result' = verifyWebhookSignature(issued.secret, issued.header,
                                              issued.body, options, clock)
    /\ UNCHANGED <<clock, issued, prev>>

\* the call returns; the observer keeps its outcome or the one kept before
ReturnObserved ==
    /\ call # Null
    /\ prev' \in {prev, [call |-> call, result |-> result]}
    /\ call' = Null
    /\ result' = Null
    /\ UNCHANGED <<clock, issued>>

ReplayNext == Tick \/ Capture \/ VerifyReplay \/ ReturnObserved

ReplaySpec == Init /\ [][ReplayNext]_vars

(***************************************************************************)
(* The signed string on its own, for timestamps up to and beyond the size  *)
(* at which `${timestamp}` changes to exponent notation                    *)
(***************************************************************************)

\* integers as timestamps: small ones, 10^20, 10^21, 15 * 10^20
SigningTimestamps ==
    { TimesPowerOfTen(0, 0), TimesPowerOfTen(1, 0), TimesPowerOfTen(-1, 0),
      TimesPowerOfTen(15, 0), TimesPowerOfTen(1000, 0),
      TimesPowerOfTen(1, 20), TimesPowerOfTen(1, 21),
      TimesPowerOfTen(15, 20), TimesPowerOfTen(-15, 20) }

\* bodies with and without '.', among them the tail of an exponent form
SigningBodies ==
    UNION {[1..n -> {"0", ".", "x"}] : n \in 0..(MaxBodyLen + 1)}
    \cup { <<"5", "e", "+", "2", "1", ".", "x">>, <<"e", "+", "2", "1", ".", "x">> }

\* the string to sign is built for a timestamp and a body
BuildSigningString ==
    /\ call = Null
    /\ \E timestamp \in SigningTimestamps, body \in SigningBodies :
          /\ call' = [op |-> "sign", timestamp |-> timestamp, body |-> body]
          /\ result' = SigningString(timestamp, body)
    /\ UNCHANGED <<clock, issued, prev>>

SigningNext == BuildSigningString \/ Return

SigningSpec == Init /\ [][SigningNext]_vars

(***************************************************************************)
(* Properties                                                              *)
(***************************************************************************)

IsVerify == call # Null /\ call.op = "verify"

IsParse == call # Null /\ call.op = "parse"

\* the call verifies the issued header
VerifiesIssued == IsVerify /\ issued # Null /\ call.header = issued.header

\* the call verifies the issued header with the secret and body it was signed with
VerifiesAsSigned ==
    VerifiesIssued /\ call.secret = issued.secret /\ call.body = issued.body

\* now - timestamp of the call, for the timestamp t
AgeOf(t) == nowSeconds(call.dateNow) - t

TooOld == Invalid("Signature timestamp too old")

InFuture == Invalid("Signature timestamp in the future")

BadSignature == Invalid("Invalid signature")

BadFormat == Invalid("Invalid signature format")

DefaultMaxAge == 300

\* C4: without options.maxAge the timestamp is still checked against a
\* default of 300 seconds: a correctly signed header older than that is
\* rejected as too old
C4_DefaultMaxAge ==
    ( /\ VerifiesAsSigned
      /\ call.options = NoOptions
      /\ AgeOf(issued.timestamp) > DefaultMaxAge )
    => result = TooOld

\* the call verifies with maxAge supplied a header that parses
SuppliedAndParsed ==
    /\ IsVerify
    /\ call.options # NoOptions
    /\ parseWebhookSignature(call.header) # Null

\* now - timestamp for the timestamp of the call's header
CallAge == AgeOf(parseWebhookSignature(call.header).timestamp)

CallMaxAge == call.options.maxAge.value

\* C5: with maxAge supplied and a header that parses, the outcome is
\* 'Signature timestamp too old' exactly when now - timestamp > maxAge,
\* whether or not the signature is right
C5_TooOldIffOverMaxAge ==
    SuppliedAndParsed => (result = TooOld <=> CallAge > CallMaxAge)

C5_Witness ==
    /\ SuppliedAndParsed
    /\ VerifiesAsSigned
    /\ CallMaxAge = 300
    /\ CallAge = CallMaxAge
    /\ result = Valid

\* C6 as stated: with maxAge supplied and a header that parses, a timestamp
\* more than 60 seconds ahead gives 'Signature timestamp in the future' for
\* every maxAge, and one at most 60 seconds ahead never does
C6_FutureForEveryMaxAge ==
    SuppliedAndParsed
    => /\ (CallAge < 0 - FutureSkew) => result = InFuture
       /\ (CallAge >= 0 - FutureSkew) => result # InFuture

\* C6 amended: as C6 for every maxAge >= -61; for a smaller maxAge a
\* timestamp more than 60 seconds ahead with now - timestamp > maxAge is
\* rejected as too old first
C6_FutureWithinWindow ==
    SuppliedAndParsed
    => /\ (CallAge < 0 - FutureSkew /\ CallMaxAge >= 0 - (FutureSkew + 1))
             => result = InFuture
       /\ (CallAge < 0 - FutureSkew /\ CallAge > CallMaxAge) => result = TooOld
       /\ (CallAge >= 0 - FutureSkew) => result # InFuture

C6_Witness ==
    /\ SuppliedAndParsed
    /\ CallMaxAge = 300
    /\ CallAge = 0 - (FutureSkew + 1)
    /\ result = InFuture

Outcomes == {Valid, BadFormat, TooOld, InFuture, BadSignature}

\* C7: verifyWebhookSignature never throws and returns one of five outcomes
C7_FiveOutcomes == IsVerify => result \in Outcomes

C7_Witness ==
    /\ IsVerify
    /\ parseWebhookSignature(call.header) # Null
    /\ Len(BufferFromHex(parseWebhookSignature(call.header).signature)) # DigestLen
    /\ result = BadSignature

CallSegments == split(call.header)

HasEq(seg) == \E i \in 1..Len(seg) : seg[i] = "="

\* the key and the value of a segment that has a '='
KeyOf(seg) == SubSeq(seg, 1, indexOf(seg, "="))

ValueOf(seg) == SubSeq(seg, indexOf(seg, "=") + 2, Len(seg))

\* the positions of the segments of segs whose key is key
WithKey(segs, key) == {i \in 1..Len(segs) : HasEq(segs[i]) /\ KeyOf(segs[i]) = key}

Last(positions) == CHOOSE i \in positions : \A j \in positions : j <= i

\* v reads as a base-10 integer: white space, an optional sign, then a digit
ReadsAsInteger(v) ==
    \E i \in 1..Len(v) :
       /\ IsDigit(v[i])
       /\ \/ \A j \in 1..(i - 1) : v[j] \in WhiteSpace
          \/ /\ i > 1
             /\ v[i - 1] \in {"+", "-"}
             /\ \A j \in 1..(i - 2) : v[j] \in WhiteSpace

\* C9 as stated: a result is returned exactly when some segment with key t
\* has a value that reads as a base-10 integer and some segment has key v1
C9_ResultIffSomeValidT ==
    IsParse
    => ( result # Null
         <=> /\ \E i \in WithKey(CallSegments, <<"t">>) :
                   ReadsAsInteger(ValueOf(CallSegments[i]))
             /\ WithKey(CallSegments, V1Key) # {} )

\* C9 amended: a result is returned exactly when the last segment with key
\* t has a value that reads as a base-10 integer and some segment has key v1
C9_ResultIffLastTValid ==
    IsParse
    => ( result # Null
         <=> /\ WithKey(CallSegments, <<"t">>) # {}
             /\ ReadsAsInteger(ValueOf(CallSegments[Last(WithKey(CallSegments, <<"t">>))]))
             /\ WithKey(CallSegments, V1Key) # {} )

C9_Witness ==
    /\ IsParse
    /\ \E i \in WithKey(CallSegments, <<"t">>) :
          ReadsAsInteger(ValueOf(CallSegments[i]))
    /\ ~ReadsAsInteger(ValueOf(CallSegments[Last(WithKey(CallSegments, <<"t">>))]))
    /\ WithKey(CallSegments, V1Key) # {}
    /\ result = Null

\* a segment the parser has no use for: no '=', or a key other than t and v1
Ignorable(seg) == ~HasEq(seg) \/ KeyOf(seg) \notin {<<"t">>, V1Key}

\* longer is shorter with one ignorable segment added
AddsIgnorable(shorter, longer) ==
    \E i \in 1..Len(longer) : Ignorable(longer[i]) /\ RemoveAt(longer, i) = shorter

\* C10: adding or removing a segment with an unknown key or without '='
\* leaves the result of parseWebhookSignature unchanged
C10_IgnorableSegments ==
    ( /\ IsParse
      /\ prev # Null
      /\ \/ AddsIgnorable(split(prev.header), CallSegments)
         \/ AddsIgnorable(CallSegments, split(prev.header)) )
    => result = prev.result

C10_Witness ==
    /\ IsParse
    /\ prev # Null
    /\ AddsIgnorable(split(prev.header), CallSegments)
    /\ \E i \in 1..Len(CallSegments) :
          /\ HasEq(CallSegments[i])
          /\ Ignorable(CallSegments[i])
          /\ RemoveAt(CallSegments, i) = split(prev.header)
    /\ result # Null
    /\ result = prev.result

\* how many segments of segs are seg
Occurrences(segs, seg) == Cardinality({i \in 1..Len(segs) : segs[i] = seg})

\* b holds the segments of a, each as often, in some order
IsPermutation(a, b) ==
    /\ Len(a) = Len(b)
    /\ \A i \in 1..Len(a) : Occurrences(a, a[i]) = Occurrences(b, a[i])

\* the last segment of segs with this key, as a set of at most one segment
LastWithKey(segs, key) ==
    IF WithKey(segs, key) = {} THEN {} ELSE {segs[Last(WithKey(segs, key))]}

\* C11 as stated: parseWebhookSignature returns the same result for every
\* permutation of the header's comma-separated segments
C11_AnyPermutation ==
    ( /\ IsParse
      /\ prev # Null
      /\ IsPermutation(split(prev.header), CallSegments) )
    => result = prev.result

\* C11 amended: parseWebhookSignature returns the same result for every
\* permutation of the segments that leaves the same segment as the last one
\* with key t and the same segment as the last one with key v1
C11_PermutationKeepingLastKeys ==
    ( /\ IsParse
      /\ prev # Null
      /\ IsPermutation(split(prev.header), CallSegments)
      /\ LastWithKey(split(prev.header), <<"t">>) = LastWithKey(CallSegments, <<"t">>)
      /\ LastWithKey(split(prev.header), V1Key) = LastWithKey(CallSegments, V1Key) )
    => result = prev.result

\* 'v1=<sig>,t=<ts>' is parsed after 't=<ts>,v1=<sig>' and gives its result
C11_Witness ==
    /\ IsParse
    /\ prev # Null
    /\ IsPermutation(split(prev.header), CallSegments)
    /\ \E i \in WithKey(CallSegments, <<"t">>), j \in WithKey(CallSegments, V1Key) :
          /\ j < i
          /\ split(prev.header) = SwapAt(CallSegments, j, i)
    /\ result # Null
    /\ result = prev.result

IsGenerate == call # Null /\ call.op = "generate"

\* the text matches ^t=\d+,v1=[a-f0-9]+$ with a signature of 64 characters
\* and the decimal form of a number without needless leading zeros
MatchesWireFormat(text) ==
    LET comma == indexOf(text, ",")
    IN  /\ comma >= 3
        /\ SubSeq(text, 1, 2) = <<"t", "=">>
        /\ \A i \in 3..comma : IsDigit(text[i])
        /\ (text[3] = "0" => comma = 3)
        /\ SubSeq(text, comma + 1, comma + 4) = <<",", "v", "1", "=">>
        /\ Len(text) = comma + 4 + 2 * DigestLen
        /\ \A i \in (comma + 5)..Len(text) :
               \E h \in 1..Len(HexLower) : text[i] = HexLower[h]

InputsChanged ==
    Cardinality({f \in {"secret", "timestamp", "body"} : call[f] # prev[f]})

\* C13: two calls of generateWebhookSignature with identical inputs return
\* identical headers, and two calls that differ in the secret only, in the
\* timestamp only or in the body only return different headers
C13_DeterministicAndSensitive ==
    (IsGenerate /\ prev # Null)
    => /\ InputsChanged = 0 => result = prev.header
       /\ InputsChanged = 1 => result # prev.header

C13_Witness ==
    /\ IsGenerate
    /\ prev # Null
    /\ call.secret = prev.secret
    /\ call.timestamp = prev.timestamp
    /\ call.body # prev.body
    /\ result # prev.header

\* the header of the call parses and the call gets past the check of the age
ReachesComparison ==
    /\ IsVerify
    /\ parseWebhookSignature(call.header) # Null
    /\ checkAge(parseWebhookSignature(call.header).timestamp, call.options,
                call.dateNow) = "ok"

\* the v1 value of the header of the call
ClaimedSignature == parseWebhookSignature(call.header).signature

\* the 32 bytes of the digest the call computes
ExpectedBytes ==
    HmacSha256(call.secret,
               NumberToString(parseWebhookSignature(call.header).timestamp)
                 \o <<".">> \o call.body)

IsHexText(s) == \A i \in 1..Len(s) : unhex(s[i]) # -1

\* C14: a claimed signature of the wrong length, one that is not valid hex
\* and one whose content differs from the expected digest (tampered body,
\* wrong secret) all give the same outcome 'Invalid signature'
C14_FailuresReportedAlike ==
    ( /\ ReachesComparison
      /\ \/ Len(ClaimedSignature) # 2 * DigestLen
         \/ ~IsHexText(ClaimedSignature)
         \/ BufferFromHex(ClaimedSignature) # ExpectedBytes )
    => result = BadSignature

\* C15: a v1 value that cannot be decoded as hex (a character that is no
\* hex digit, or an odd number of characters) or that does not decode to
\* the 32 bytes of the expected digest gives 'Invalid signature'
C15_UndecodableIsMismatch ==
    ( /\ ReachesComparison
      /\ \/ ~IsHexText(ClaimedSignature)
         \/ Len(ClaimedSignature) % 2 = 1
         \/ BufferFromHex(ClaimedSignature) # ExpectedBytes )
    => result = BadSignature

IsPayload == call # Null /\ call.op = "payload"

\* C17: parseWebhookPayload throws for every body that is not JSON text,
\* and for the JSON text of an envelope it returns an object whose event,
\* timestamp and data are those of the text, data with its nested structure
C17_ThrowsOrDecodes ==
    IsPayload
    => /\ call.body \in (CutTexts \cup NotJsonTexts) => result = Threw
       /\ \A layout \in Layouts, event \in PayloadEvents,
             timestamp \in PayloadTimestamps, data \in DataSamples :
             call.body = EnvelopeText(layout, event, timestamp, data.text)
             => /\ result # Threw
                /\ result.kind = "object"
                /\ {EventKey, TimestampKey, DataKey} \subseteq DOMAIN result.fields
                /\ result.fields[EventKey] = Str(event)
                /\ result.fields[TimestampKey] = Str(timestamp)
                /\ result.fields[DataKey] = data.value

C17_Witness ==
    /\ IsPayload
    /\ call.body \in EnvelopeTexts
    /\ result # Threw
    /\ result.fields[EventKey] = Str(<<"a", ".", "b">>)
    /\ result.fields[DataKey].kind = "array"
    /\ result.fields[DataKey].items[2] = Obj(<<"a">> :> Arr(<<>>))

\* the value is a payload envelope: an object with a string event, a string
\* timestamp and a data member
IsEnvelope(v) ==
    /\ v.kind = "object"
    /\ {EventKey, TimestampKey, DataKey} \subseteq DOMAIN v.fields
    /\ v.fields[EventKey].kind = "string"
    /\ v.fields[TimestampKey].kind = "string"

\* C18: every value parseWebhookPayload returns is a payload envelope, so
\* JSON text that is no envelope ('123', 'null', '{}') makes it throw
C18_ReturnsOnlyEnvelopes ==
    (IsPayload /\ result # Threw) => IsEnvelope(result)

\* a method of the client was called and fetch gave a response
Responded == call # Null /\ call.op = "request" /\ "status" \in DOMAIN call.fetched

\* the body of the response was read as JSON and is an object with this member
BodyHas(key) ==
    /\ call.fetched.json # Threw
    /\ call.fetched.json.kind = "object"
    /\ key \in DOMAIN call.fetched.json.fields

BodyMember(key) == call.fetched.json.fields[key]

\* a response 204 that is ok resolves to undefined without reading the body
NoContentUnread ==
    (Responded /\ ok(call.fetched) /\ call.fetched.status = NoContent)
    => result = Resolved(Undefined, FALSE)

\* C19 as stated: a response that is not ok rejects with a LocuApiError with
\* the status of the response, the message member of the JSON body when the
\* body can be read and has one, 'Request failed with status <status>'
\* otherwise, and the code of the body or undefined
C19_MessageWhenPresent ==
    /\ (Responded /\ ~ok(call.fetched))
       => /\ result.settled = "rejected"
          /\ result.error.name = "LocuApiError"
          /\ result.error.status = call.fetched.status
          /\ result.error.message = IF BodyHas(MessageKey)
                                    THEN BodyMember(MessageKey).chars
                                    ELSE RequestFailedText(call.fetched.status)
          /\ result.error.code = IF BodyHas(CodeKey) THEN BodyMember(CodeKey)
                                 ELSE Undefined
    /\ NoContentUnread

\* C19 amended: the message is the message member of the JSON body when the
\* body can be read and has a message that is not empty, and 'Request failed
\* with status <status>' otherwise
C19_MessageWhenNotEmpty ==
    /\ (Responded /\ ~ok(call.fetched))
       => /\ result.settled = "rejected"
          /\ result.error.name = "LocuApiError"
          /\ result.error.status = call.fetched.status
          /\ result.error.message
                = IF BodyHas(MessageKey) /\ BodyMember(MessageKey).chars # <<>>
                  THEN BodyMember(MessageKey).chars
                  ELSE RequestFailedText(call.fetched.status)
          /\ result.error.code = IF BodyHas(CodeKey) THEN BodyMember(CodeKey)
                                 ELSE Undefined
    /\ NoContentUnread

\* the body of a response 500 is no JSON: still a LocuApiError
C19_Witness ==
    /\ Responded
    /\ call.fetched.status = 500
    /\ call.fetched.json = Threw
    /\ result.settled = "rejected"
    /\ result.error
         = LocuApiError(<<"R", "e", "q", "u", "e", "s", "t", " ", "f", "a", "i", "l", "e", "d", " ", "w", "i", "t", "h", " ", "s", "t", "a", "t", "u", "s", " ", "5", "0", "0">>,
                        500, Undefined)

IsMain == call # Null /\ call.op = "main"

\* the segment stands for a parameter, in a path of the API or in the
\* template literal of a generated method
IsParameter(segment) ==
    segment \in {"{id}", "{activityId}", "{sessionId}", "{taskId}",
                 "${id}", "${activityId}", "${sessionId}"}

\* the generated client has a method that requests this operation of the API
HasClientMethod(endpoint) ==
    \E generated \in generateClient :
       /\ generated.method = toUpperCase[endpoint.method]
       /\ Len(generated.path) = Len(endpoint.path)
       /\ \A i \in 1..Len(endpoint.path) :
             \/ generated.path[i] = endpoint.path[i]
             \/ IsParameter(generated.path[i]) /\ IsParameter(endpoint.path[i])

\* C20: the generator fails, listing the missing endpoints and not writing
\* client.ts, whenever the API description has an endpoint the generated
\* client has no method for; whenever client.ts is written, every endpoint
\* of the API description has a generated client method
C20_WrittenOnlyWhenCovered ==
    IsMain
    => LET uncovered == {endpoint \in call.api : ~HasClientMethod(endpoint)}
       IN  /\ uncovered # {}
              => /\ result.exit = 1
                 /\ ~result.written
                 /\ uncovered \subseteq result.missing
           /\ result.written => uncovered = {}

\* the functions the call called, in order
Called == [i \in 1..Len(call.effects) |-> call.effects[i].fn]

\* how often the call called fn
TimesCalled(fn) == Cardinality({i \in 1..Len(Called) : Called[i] = fn})

\* the timestamp of the header is outside the window of the supplied maxAge
OutOfWindow ==
    /\ SuppliedAndParsed
    /\ (CallAge > CallMaxAge \/ CallAge < 0 - FutureSkew)

\* C21: the first failing step decides: a header that does not parse gives
\* 'Invalid signature format'; otherwise, with maxAge, a timestamp outside
\* the window gives a timestamp error before any signature is computed, also
\* when the signature is wrong; 'Invalid signature' is returned only when the
\* header parses and the time check passes or is skipped
C21_FirstFailingStepDecides ==
    IsVerify
    => /\ parseWebhookSignature(call.header) = Null
          => (result = BadFormat /\ Called = <<"parseWebhookSignature">>)
       /\ OutOfWindow
          => (result \in {TooOld, InFuture} /\ TimesCalled("createHmac") = 0)
       /\ result = BadSignature
          => /\ parseWebhookSignature(call.header) # Null
             /\ ~OutOfWindow
             /\ TimesCalled("createHmac") = 1

\* too old and wrongly signed: the age is what is reported
C21_Witness ==
    /\ OutOfWindow
    /\ CallAge > CallMaxAge
    /\ BufferFromHex(ClaimedSignature) # ExpectedBytes
    /\ result = TooOld

\* the signature in the header generateWebhookSignature gives
GeneratedSignature(secret, timestamp, body) ==
    LET header == generateWebhookSignature(secret, timestamp, body)
    IN  SubSeq(header, indexOf(header, ",") + 5, Len(header))

\* C22: the expected signature is the one generateWebhookSignature computes
\* for the secret, the parsed timestamp and the raw body, so a body that
\* differs as text from the signed one does not verify, also when both
\* denote the same JSON value
C22_RawBodySigned ==
    ReachesComparison
    => /\ result = Valid
          <=> BufferFromHex(ClaimedSignature)
                = BufferFromHex(GeneratedSignature(
                      call.secret, parseWebhookSignature(call.header).timestamp,
                      call.body))
       /\ ( /\ VerifiesIssued
            /\ call.secret = issued.secret
            /\ call.body # issued.body )
          => result = BadSignature

\* '{ }' is verified against the header signed for '{}'
C22_Witness ==
    /\ VerifiesIssued
    /\ call.secret = issued.secret
    /\ call.body # issued.body
    /\ JSONparse(call.body) = JSONparse(issued.body)
    /\ JSONparse(call.body) # Threw
    /\ result = BadSignature

\* C23: timingSafeEqual is called only with two buffers of equal length:
\* when the decoded claimed signature and the expected digest differ in
\* length the call returns 'Invalid signature' without calling it, so its
\* error for unequal lengths is never raised
C23_ComparesEqualLengthsOnly ==
    IsVerify
    => /\ \A i \in 1..Len(call.effects) :
             call.effects[i].fn = "timingSafeEqual"
             => call.effects[i].a = call.effects[i].b
       /\ (ReachesComparison /\ Len(BufferFromHex(ClaimedSignature)) # Len(ExpectedBytes))
          => (result = BadSignature /\ TimesCalled("timingSafeEqual") = 0)
       /\ result # Threw

\* a claimed signature two characters short is rejected without comparison
C23_Witness ==
    /\ ReachesComparison
    /\ Len(BufferFromHex(ClaimedSignature)) = DigestLen - 1
    /\ Called[Len(Called)] = "Buffer.from"
    /\ result = BadSignature

\* the outcome of the call had the clock been read as c
OutcomeAt(c) ==
    verifyWebhookSignature(call.secret, call.header, call.body, call.options, c)

\* C24: a verify call reads the clock at most once: with maxAge supplied and
\* a header that parses it reads it once, and the too-old check and the
\* in-the-future check both use that reading, wherever the clock stands when
\* the call returns; without maxAge the clock is not read and the outcome is
\* the same at every reading
C24_ClockReadOnce ==
    IsVerify
    => /\ TimesCalled("Date.now") <= 1
       /\ call.options = NoOptions
          => /\ TimesCalled("Date.now") = 0
             /\ \A c \in Instants : OutcomeAt(c) = result
       /\ SuppliedAndParsed
          => /\ TimesCalled("Date.now") = 1
             /\ result = TooOld <=> CallAge > CallMaxAge
             /\ result = InFuture
                <=> (CallAge <= CallMaxAge /\ CallAge < 0 - FutureSkew)

\* the header leaves the window of maxAge while the call runs, and the call
\* accepts it by the reading it took
C24_Witness ==
    /\ SuppliedAndParsed
    /\ TimesCalled("Date.now") = 1
    /\ CallAge <= CallMaxAge
    /\ nowSeconds(clock) - parseWebhookSignature(call.header).timestamp > CallMaxAge
    /\ result = Valid

\* both callers have their results
BothReturned ==
    /\ call # Null
    /\ prev # Null
    /\ result # Pending
    /\ prev.result # Pending

C26_ValidOnlyForExactDigest ==
    (IsVerify /\ result = Valid)
    => ClaimedSignature = HexEncode(ExpectedBytes)

\* an earlier verification of the call's header with the call's maxAge
\* returned 'Signature timestamp too old'
RejectedAsOldBefore ==
    /\ IsVerify
    /\ prev # Null
    /\ prev.call.header = call.header
    /\ prev.call.options = call.options
    /\ prev.result = TooOld

\* C27: once a header was rejected as too old, every later verification of
\* it with the same maxAge is rejected as too old; a captured, correctly
\* signed request is accepted under maxAge only while
\* -60 <= now - timestamp <= maxAge
C27_ReplayRejectionPermanent ==
    /\ RejectedAsOldBefore => result = TooOld
    /\ (VerifiesAsSigned /\ call.options # NoOptions /\ result = Valid)
       => (CallAge >= 0 - FutureSkew /\ CallAge <= CallMaxAge)

\* the captured request, rejected as too old before, is rejected as too old
\* again at a later reading of the clock
C27_Witness ==
    /\ RejectedAsOldBefore
    /\ VerifiesAsSigned
    /\ call.options = WithMaxAge(300)
    /\ call.dateNow > prev.call.dateNow
    /\ result = TooOld

\* the header h parses to what the header of the call parses to
ParsesAlike(h) == parseWebhookSignature(h) = parseWebhookSignature(call.header)

\* C28: the outcome depends on the header only through what
\* parseWebhookSignature returns for it: with the secret, body, options and
\* clock reading of the call, every header that parses to the same
\* {timestamp, signature}, or to null as well, gives the outcome of the call
C28_HeaderOnlyThroughParse ==
    IsVerify
    => \A h \in WireHeaders :
          ParsesAlike(h)
          => verifyWebhookSignature(call.secret, h, call.body, call.options,
                                    call.dateNow) = result

\* the issued header with its two segments exchanged is accepted as the
\* issued header is
C28_Witness ==
    /\ IsVerify
    /\ issued # Null
    /\ call.header # issued.header
    /\ ParsesAlike(issued.header)
    /\ result = Valid
    /\ call.options # NoOptions

\* the positions of the call's segments with key t, and with key v1
TSegments == WithKey(CallSegments, <<"t">>)

V1Segments == WithKey(CallSegments, V1Key)

\* the value of the last segment with key t, and with key v1
LastTValue == ValueOf(CallSegments[Last(TSegments)])

LastV1Value == ValueOf(CallSegments[Last(V1Segments)])

\* the header of the call has the key t or the key v1 more than once
RepeatsKey == IsParse /\ (Cardinality(TSegments) > 1 \/ Cardinality(V1Segments) > 1)

\* C29: when the key t or the key v1 occurs more than once, the last
\* occurrence of each decides: a result has the timestamp of the last t
\* segment and the signature of the last v1 segment, and the result is null
\* when the value of the last t segment is not a number, also after a t
\* segment with a number
C29_LastOccurrenceDecides ==
    RepeatsKey
    => /\ result # Null
          => /\ TSegments # {} /\ V1Segments # {}
             /\ Num(result.timestamp) = parseInt(LastTValue)
             /\ result.signature = LastV1Value
       /\ (TSegments # {} /\ ~ReadsAsInteger(LastTValue)) => result = Null

\* two t segments with different numbers: the result has the later one
C29_Witness ==
    /\ RepeatsKey
    /\ V1Segments # {}
    /\ \E i \in TSegments :
          /\ i < Last(TSegments)
          /\ ReadsAsInteger(ValueOf(CallSegments[i]))
          /\ ReadsAsInteger(LastTValue)
          /\ parseInt(ValueOf(CallSegments[i])) # parseInt(LastTValue)
    /\ result # Null
    /\ Num(result.timestamp) = parseInt(LastTValue)

IsSigning == call # Null /\ call.op = "sign"

\* C30: the string to sign is unambiguous: for integer timestamps, another
\* pair of timestamp and body gives another string '<timestamp>.<body>'
C30_SigningStringUnambiguous ==
    IsSigning
    => \A timestamp \in SigningTimestamps, body \in SigningBodies :
          SigningString(timestamp, body) = result
          => (timestamp = call.timestamp /\ body = call.body)
====
